---- MODULE Spec2Model ----
(***************************************************************************)
(* Verification model of apple_hpke.ParseDeviceResponse and                *)
(* generateAppleSessionTranscript (src/apple_hpke/apple.go).               *)
(*                                                                         *)
(* Byte strings and Go strings are sequences of numbers 0..255.  A Go nil  *)
(* slice is the empty sequence.  Values that cross the cbor codec are      *)
(* CBOR data items; the session transcript is encoded down to bytes, the   *)
(* envelope and the HPKE plaintext are kept at the level of data items.    *)
(***************************************************************************)
EXTENDS Integers, Sequences, FiniteSets, TLC

\* ------------------------------------------------------------------ bounds
NumCalls == 2       \* parse calls running side by side
NumKeys == 2        \* verifier key pairs
NumNonces == 2      \* session nonces (nonce n is n bytes long)

Calls == 1..NumCalls
Keys == 1..NumKeys

\* ---------------------------------------------------------- CBOR encoding
\* cbor.Marshal writes a head: the major type in the top three bits and the
\* length either inline (< 24), or after 24 in one byte, or after 25 in two.
cborHead(major, n) ==
  IF n < 24 THEN <<major * 32 + n>>
  ELSE IF n < 256 THEN <<major * 32 + 24, n>>
  ELSE <<major * 32 + 25, n \div 256, n % 256>>

\* The Go values handed to cbor.Marshal, as data items.
Null == [t |-> "null", v |-> <<>>]
Bstr(b) == [t |-> "bstr", v |-> b]
Tstr(s) == [t |-> "tstr", v |-> s]
Arr(items) == [t |-> "arr", v |-> items]

RECURSIVE cborMarshal(_)
RECURSIVE cborMarshalAll(_)
\* cbor.Marshal: nil is 0xf6, []byte is major 2, string major 3, a slice of
\* interface{} major 4 followed by its elements in order.
cborMarshal(item) ==
  IF item.t = "null" THEN <<246>>
  ELSE IF item.t = "bstr" THEN cborHead(2, Len(item.v)) \o item.v
  ELSE IF item.t = "tstr" THEN cborHead(3, Len(item.v)) \o item.v
  ELSE cborHead(4, Len(item.v)) \o cborMarshalAll(item.v)

cborMarshalAll(items) ==
  IF items = <<>> THEN <<>>
  ELSE cborMarshal(Head(items)) \o cborMarshalAll(Tail(items))

\* "AppleIdentityPresentment_1.0"
APPLE_HANDOVER_V1 ==
  <<65, 112, 112, 108, 101, 73, 100, 101, 110, 116, 105, 116, 121, 80, 114,
    101, 115, 101, 110, 116, 109, 101, 110, 116, 95, 49, 46, 48>>

\* A plausible slip: merchantID and teamID change places in the handover.
generateAppleSessionTranscript_Swapped(merchantID, temaID, nonce, requesterIdHash) ==
  cborMarshal(Arr(<<Null, Null,
    Arr(<<Tstr(APPLE_HANDOVER_V1), Bstr(nonce), Tstr(temaID),
          Tstr(merchantID), Bstr(requesterIdHash)>>)>>))

\* generateAppleSessionTranscript: cbor.Marshal never fails on this value
\* (nil, strings and byte slices only), so the error branch is not taken.
generateAppleSessionTranscript(merchantID, temaID, nonce, requesterIdHash) ==
  cborMarshal(Arr(<<Null, Null,
    Arr(<<Tstr(APPLE_HANDOVER_V1), Bstr(nonce), Tstr(merchantID),
          Tstr(temaID), Bstr(requesterIdHash)>>)>>))

\* ------------------------------------------------- the test's fixed vector
FixtureNonce ==
  <<150, 76, 62, 86, 160, 96, 97, 250, 33, 63, 206, 43, 167, 50, 23, 166,
    211, 89, 194, 230, 93, 68, 236, 107, 91, 148, 249, 197, 126, 238, 179,
    192, 69, 144, 99, 68, 199, 3, 46, 38, 9, 235, 96, 83, 60, 53, 169, 138,
    117, 208, 210, 68, 78, 249, 5, 124, 85, 203, 178, 208, 93, 103, 42, 37>>
FixtureSessionTranscript ==
  <<131, 246, 246, 133, 120, 28, 65, 112, 112, 108, 101, 73, 100, 101, 110,
    116, 105, 116, 121, 80, 114, 101, 115, 101, 110, 116, 109, 101, 110,
    116, 95, 49, 46, 48, 88, 64, 150, 76, 62, 86, 160, 96, 97, 250, 33, 63,
    206, 43, 167, 50, 23, 166, 211, 89, 194, 230, 93, 68, 236, 107, 91, 148,
    249, 197, 126, 238, 179, 192, 69, 144, 99, 68, 199, 3, 46, 38, 9, 235,
    96, 83, 60, 53, 169, 138, 117, 208, 210, 68, 78, 249, 5, 124, 85, 203,
    178, 208, 93, 103, 42, 37, 120, 33, 80, 97, 115, 115, 75, 105, 116, 95,
    73, 100, 101, 110, 116, 105, 116, 121, 95, 84, 101, 115, 116, 95, 77,
    101, 114, 99, 104, 97, 110, 116, 95, 73, 68, 120, 29, 80, 97, 115, 115,
    75, 105, 116, 95, 73, 100, 101, 110, 116, 105, 116, 121, 95, 84, 101,
    115, 116, 95, 84, 101, 97, 109, 95, 73, 68, 88, 32, 178, 192, 15, 6,
    178, 223, 100, 86, 145, 23, 79, 19, 49, 173, 227, 81, 65, 241, 126, 25,
    179, 2, 29, 7, 86, 11, 74, 113, 252, 97, 129, 140>>
FixturePublicKeyDigest ==
  <<178, 192, 15, 6, 178, 223, 100, 86, 145, 23, 79, 19, 49, 173, 227, 81,
    65, 241, 126, 25, 179, 2, 29, 7, 86, 11, 74, 113, 252, 97, 129, 140>>
FixtureMerchantID ==
  <<80, 97, 115, 115, 75, 105, 116, 95, 73, 100, 101, 110, 116, 105, 116,
    121, 95, 84, 101, 115, 116, 95, 77, 101, 114, 99, 104, 97, 110, 116, 95,
    73, 68>>
FixtureTeamID ==
  <<80, 97, 115, 115, 75, 105, 116, 95, 73, 100, 101, 110, 116, 105, 116,
    121, 95, 84, 101, 115, 116, 95, 84, 101, 97, 109, 95, 73, 68>>

\* ------------------------------------------------ keys, digest, HPKE, codec
\* privateKey.PublicKey().Bytes(): the uncompressed point of key pair k
\* (0x04 followed by the coordinates, here the key's number).
PublicKeyBytes(k) == <<4, k>>

\* protocol.Digest(data, "SHA-256"), as an ideal hash: deterministic and
\* free of collisions (distinct inputs give distinct digests).
Digest(data) == <<83>> \o data

\* mdoc.DeviceResponse: nil pointer, Go zero value, and a decoded value.
NilResponse == [nil |-> TRUE, version |-> "", documents |-> 0]
ZeroResponse == [nil |-> FALSE, version |-> "", documents |-> 0]
Response(version, n) == [nil |-> FALSE, version |-> version, documents |-> n]

\* The HPKE plaintext as the data item it holds: bytes that are no CBOR at
\* all, a map without the key "identity", a map with it.
PtNone == [kind |-> "none", hasIdentity |-> FALSE, identity |-> ZeroResponse]
PtGarbage == [kind |-> "garbage", hasIdentity |-> FALSE, identity |-> ZeroResponse]
PtEmptyMap == [kind |-> "map", hasIdentity |-> FALSE, identity |-> ZeroResponse]
PtIdentity(r) == [kind |-> "map", hasIdentity |-> TRUE, identity |-> r]
Plaintexts == {PtGarbage, PtEmptyMap, PtIdentity(Response("1.0", 1))}

\* A ciphertext is what HPKE sealing made it: the recipient key and the
\* encapsulated key it was sealed under, the info/associated data bound
\* into it, the plaintext inside, and whether it still is as sealed.
NilCiphertext ==
  [pk |-> 0, enc |-> <<>>, info |-> <<>>, pt |-> PtNone, intact |-> FALSE]
Seal(k, enc, info, pt) ==
  [pk |-> k, enc |-> enc, info |-> info, pt |-> pt, intact |-> TRUE]
FlipBit(ct) == [ct EXCEPT !.intact = FALSE]

\* An encapsulated key is a well-formed point or it is not.
EphemeralKey == <<4, 200>>
MalformedKey == <<9>>
ValidPoint(b) == Len(b) = Len(EphemeralKey) /\ b[1] = 4

\* protocol.DecryptHPKE(ciphertext, pkEm, info, privateKey): KEM
\* decapsulation of pkEm, then AEAD open of the ciphertext bound to info.
DecryptHPKE(ciphertext, pkEm, info, privateKey) ==
  IF ~ValidPoint(pkEm)
    THEN [err |-> "kem: invalid encapsulated key", pt |-> PtNone]
  ELSE IF /\ ciphertext.intact
          /\ ciphertext.pk = privateKey
          /\ ciphertext.enc = pkEm
          /\ ciphertext.info = info
    THEN [err |-> "", pt |-> ciphertext.pt]
  ELSE [err |-> "aead: message authentication failed", pt |-> PtNone]

\* HPKEEnvelope / HPKEParams and their Go zero value.
Envelope(alg, mode, pkEm, pkRHash, infoHash, data) ==
  [Algorithm |-> alg,
   Params |-> [Mode |-> mode, PkEM |-> pkEm, PkRHash |-> pkRHash,
               InfoHash |-> infoHash],
   Data |-> data]
ZeroEnvelope == Envelope("", 0, <<>>, <<>>, <<>>, NilCiphertext)

\* The bytes handed to parse, as the data item they hold.
WireGarbage == [kind |-> "garbage", env |-> ZeroEnvelope]
WireArray == [kind |-> "array", env |-> ZeroEnvelope]
WireEmptyMap == [kind |-> "emptymap", env |-> ZeroEnvelope]
WireMap(e) == [kind |-> "map", env |-> e]

\* cbor.Unmarshal(data, &claims): bytes that are no CBOR and items that are
\* no map are errors; a map fills the fields it names and leaves the others
\* at their zero value.
cborUnmarshalEnvelope(data) ==
  IF data.kind = "garbage" THEN [err |-> "cbor: unexpected EOF", env |-> ZeroEnvelope]
  ELSE IF data.kind = "array"
    THEN [err |-> "cbor: cannot unmarshal array into Go value of type HPKEEnvelope",
          env |-> ZeroEnvelope]
  ELSE IF data.kind = "emptymap" THEN [err |-> "", env |-> ZeroEnvelope]
  ELSE [err |-> "", env |-> data.env]

\* cbor.Unmarshal(plaintext, &topics): as above; a map without "identity"
\* decodes, leaving topics.Identity at its zero value.
cborUnmarshalTopics(plaintext) ==
  IF plaintext.kind # "map"
    THEN [err |-> "cbor: unexpected EOF", identity |-> ZeroResponse]
  ELSE IF plaintext.hasIdentity THEN [err |-> "", identity |-> plaintext.identity]
  ELSE [err |-> "", identity |-> ZeroResponse]

\* ------------------------------------------------------------------ results
\* An error made by fmt.Errorf: the format's text and what %v prints.
NoErr == [msg |-> "", cause |-> "", got |-> <<>>, want |-> <<>>]
Errorf(msg, cause, got, want) ==
  [msg |-> msg, cause |-> cause, got |-> got, want |-> want]
MsgUnmarshal == "Error unmarshal cbor string"
MsgInfoHash == "infoHash is not match"
MsgPkRHash == "PkRHash is not match"
MsgDecrypt == "Error DecryptHPKE"

\* (claims, transcript, err) as returned: nil, nil, err or &identity, info, nil
Failure(err) ==
  [ok |-> FALSE, claims |-> NilResponse, transcript |-> <<>>, err |-> err]
Success(identity, info) ==
  [ok |-> TRUE, claims |-> identity, transcript |-> info, err |-> NoErr]
NoReturn == Failure(NoErr)

\* ParseDeviceResponse, run from its first line to its return.
ParseDeviceResponse(data, merchantID, temaID, privateKey, nonceByte) ==
  LET dec == cborUnmarshalEnvelope(data)
      claims == dec.env
      info == generateAppleSessionTranscript(merchantID, temaID, nonceByte,
                Digest(PublicKeyBytes(privateKey)))
      opened == DecryptHPKE(claims.Data, claims.Params.PkEM, info, privateKey)
      topics == cborUnmarshalTopics(opened.pt)
  IN IF dec.err # "" THEN Failure(Errorf(MsgUnmarshal, dec.err, <<>>, <<>>))
     ELSE IF Digest(info) # claims.Params.InfoHash
       THEN Failure(Errorf(MsgInfoHash, "", Digest(info), claims.Params.InfoHash))
     ELSE IF Digest(PublicKeyBytes(privateKey)) # claims.Params.PkRHash
       THEN Failure(Errorf(MsgPkRHash, "", <<>>, <<>>))
     ELSE IF opened.err # "" THEN Failure(Errorf(MsgDecrypt, opened.err, <<>>, <<>>))
     ELSE IF topics.err # "" THEN Failure(Errorf(MsgUnmarshal, topics.err, <<>>, <<>>))
     ELSE Success(topics.identity, info)

\* ------------------------------------------------- envelopes on the wire
Nonce(n) == [i \in 1..n |-> 160 + i]
Nonces == {Nonce(n) : n \in 1..NumNonces}
MerchantA == <<77, 49>>
MerchantB == <<77, 50>>
Merchants == {MerchantA, MerchantB}
Team == <<84>>

\* The transcript as the device encodes it: the wire format of the session
\* transcript, a 3-slot array holding null, null and the 5-slot handover.
DeviceTranscript(merchantID, teamID, nonce, keyDigest) ==
  <<131, 246, 246, 133>>
    \o cborHead(3, Len(APPLE_HANDOVER_V1)) \o APPLE_HANDOVER_V1
    \o cborHead(2, Len(nonce)) \o nonce
    \o cborHead(3, Len(merchantID)) \o merchantID
    \o cborHead(3, Len(teamID)) \o teamID
    \o cborHead(2, Len(keyDigest)) \o keyDigest

\* A correctly constructed envelope for verifier key k, a nonce and a payload.
DeviceEnvelope(k, merchantID, teamID, nonce, pt) ==
  LET info == DeviceTranscript(merchantID, teamID, nonce, Digest(PublicKeyBytes(k)))
  IN Envelope("HPKE", 0, EphemeralKey, Digest(PublicKeyBytes(k)), Digest(info),
              Seal(k, EphemeralKey, info, pt))

FlipByte(h) == [h EXCEPT ![1] = (h[1] + 1) % 256]

\* What may arrive: a correct envelope with any of its fields replaced.
PkRHashes(k) ==
  {Digest(PublicKeyBytes(h)) : h \in Keys} \cup {FlipByte(Digest(PublicKeyBytes(k)))}
Envelopes ==
  UNION { { LET e == DeviceEnvelope(k, MerchantA, Team, n, pt)
            IN Envelope(e.Algorithm, mode,
                 IF badKey THEN MalformedKey ELSE e.Params.PkEM,
                 pkr,
                 IF badInfo THEN FlipByte(e.Params.InfoHash) ELSE e.Params.InfoHash,
                 IF flipped THEN FlipBit(e.Data) ELSE e.Data)
            : n \in Nonces, pt \in Plaintexts, mode \in {0, 1},
              badKey \in BOOLEAN, badInfo \in BOOLEAN, flipped \in BOOLEAN,
              pkr \in PkRHashes(k) }
          : k \in Keys }
Wires == {WireGarbage, WireArray, WireEmptyMap} \cup {WireMap(e) : e \in Envelopes}

\* The arguments of one call of ParseDeviceResponse.
Inputs ==
  [data : Wires, merchantID : Merchants, temaID : {Team}, privateKey : Keys,
   nonceByte : Nonces]

\* The calls made side by side: one verifier session met by a correct
\* envelope and by envelopes with a wrong recipient key hash, a flipped
\* ciphertext, a malformed encapsulated key, and bytes that are no envelope;
\* and a second session with its own key and nonce.
PairEnvelopes ==
  { LET e == DeviceEnvelope(1, MerchantA, Team, Nonce(1), PtIdentity(Response("1.0", 1)))
    IN Envelope(e.Algorithm, 0,
         IF badKey THEN MalformedKey ELSE e.Params.PkEM,
         Digest(PublicKeyBytes(h)), e.Params.InfoHash,
         IF flipped THEN FlipBit(e.Data) ELSE e.Data)
    : h \in {1, 2}, badKey \in BOOLEAN, flipped \in BOOLEAN }
PairInputs ==
  [data : {WireGarbage} \cup {WireMap(e) : e \in PairEnvelopes},
   merchantID : {MerchantA}, temaID : {Team}, privateKey : {1},
   nonceByte : {Nonce(1)}]
  \cup
  [data : {WireMap(DeviceEnvelope(2, MerchantA, Team, Nonce(2),
                     PtIdentity(Response("1.0", 1))))},
   merchantID : {MerchantA}, temaID : {Team}, privateKey : {2},
   nonceByte : {Nonce(2)}]

\* -------------------------------------------------------------------- state
VARIABLES
  call,        \* the arguments of each call
  pc,          \* the line each call is at
  claims,      \* var claims HPKEEnvelope
  info,        \* the transcript built by the call
  plaintext,   \* what DecryptHPKE returned
  decryptLog,  \* every invocation of DecryptHPKE: arguments and outcome
  hashed,      \* the bytes whose digest was compared against InfoHash
  validated,   \* the Params fields the call has compared so far
  steps,       \* the steps the call has run, in order
  ret          \* the values returned

vars == <<call, pc, claims, info, plaintext, decryptLog, hashed, validated, steps, ret>>

Locals(active) ==
  /\ pc = [p \in Calls |-> IF p \in active THEN "decode" ELSE "idle"]
  /\ claims = [p \in Calls |-> ZeroEnvelope]
  /\ info = [p \in Calls |-> <<>>]
  /\ plaintext = [p \in Calls |-> PtNone]
  /\ decryptLog = [p \in Calls |-> <<>>]
  /\ hashed = [p \in Calls |-> <<>>]
  /\ validated = [p \in Calls |-> {}]
  /\ steps = [p \in Calls |-> <<>>]
  /\ ret = [p \in Calls |-> NoReturn]

\* One call, over every input.
Init ==
  /\ call \in {[p \in Calls |-> i] : i \in Inputs}
  /\ Locals({1})

\* NumCalls calls side by side.
InitPair ==
  /\ call \in [Calls -> PairInputs]
  /\ Locals(Calls)

Return(p, r) ==
  /\ ret' = [ret EXCEPT ![p] = r]
  /\ pc' = [pc EXCEPT ![p] = "done"]

Goto(p, label) ==
  /\ pc' = [pc EXCEPT ![p] = label]
  /\ UNCHANGED ret

Ran(p, step) == steps' = [steps EXCEPT ![p] = Append(@, step)]

\* lines 34-37: cbor.Unmarshal(data, &claims)
Decode(p) ==
  /\ pc[p] = "decode"
  /\ Ran(p, "decode")
  /\ LET dec == cborUnmarshalEnvelope(call[p].data)
     IN IF dec.err # ""
          THEN /\ Return(p, Failure(Errorf(MsgUnmarshal, dec.err, <<>>, <<>>)))
               /\ UNCHANGED claims
          ELSE /\ claims' = [claims EXCEPT ![p] = dec.env]
               /\ Goto(p, "transcript")
  /\ UNCHANGED <<call, info, plaintext, decryptLog, hashed, validated>>

\* A transcript kept in a cache shared by the calls: the one another call
\* built is used when there is one.
Transcript_Cached(p) ==
  /\ pc[p] = "transcript"
  /\ Ran(p, "transcript")
  /\ info' = [info EXCEPT ![p] =
       IF \E q \in Calls \ {p} : info[q] # <<>>
         THEN info[CHOOSE q \in Calls \ {p} : info[q] # <<>>]
         ELSE generateAppleSessionTranscript(call[p].merchantID, call[p].temaID,
                call[p].nonceByte, Digest(PublicKeyBytes(call[p].privateKey)))]
  /\ Goto(p, "infoHash")
  /\ UNCHANGED <<call, claims, plaintext, decryptLog, hashed, validated>>

\* lines 40-43: info, err := generateAppleSessionTranscript(...)
Transcript(p) ==
  /\ pc[p] = "transcript"
  /\ Ran(p, "transcript")
  /\ info' = [info EXCEPT ![p] =
       generateAppleSessionTranscript(call[p].merchantID, call[p].temaID,
         call[p].nonceByte, Digest(PublicKeyBytes(call[p].privateKey)))]
  /\ Goto(p, "infoHash")
  /\ UNCHANGED <<call, claims, plaintext, decryptLog, hashed, validated>>

\* The two binding checks in the other order: the recipient key hash is
\* looked at first.
CheckInfoHash_KeyFirst(p) ==
  /\ pc[p] = "infoHash"
  /\ Ran(p, "infoHash")
  /\ hashed' = [hashed EXCEPT ![p] = info[p]]
  /\ IF Digest(PublicKeyBytes(call[p].privateKey)) # claims[p].Params.PkRHash
       THEN /\ Return(p, Failure(Errorf(MsgPkRHash, "", <<>>, <<>>)))
            /\ UNCHANGED validated
       ELSE IF Digest(info[p]) # claims[p].Params.InfoHash
         THEN /\ Return(p, Failure(Errorf(MsgInfoHash, "", Digest(info[p]),
                                          claims[p].Params.InfoHash)))
              /\ UNCHANGED validated
         ELSE /\ validated' = [validated EXCEPT ![p] = @ \cup {"infoHash"}]
              /\ Goto(p, "pkRHash")
  /\ UNCHANGED <<call, claims, info, plaintext, decryptLog>>

\* lines 45-47: digest of the transcript against Params.InfoHash
CheckInfoHash(p) ==
  /\ pc[p] = "infoHash"
  /\ Ran(p, "infoHash")
  /\ hashed' = [hashed EXCEPT ![p] = info[p]]
  /\ IF Digest(info[p]) # claims[p].Params.InfoHash
       THEN /\ Return(p, Failure(Errorf(MsgInfoHash, "", Digest(info[p]),
                                        claims[p].Params.InfoHash)))
            /\ UNCHANGED validated
       ELSE /\ validated' = [validated EXCEPT ![p] = @ \cup {"infoHash"}]
            /\ Goto(p, "pkRHash")
  /\ UNCHANGED <<call, claims, info, plaintext, decryptLog>>

\* The recipient key check left out.
CheckPkRHash_Skipped(p) ==
  /\ pc[p] = "pkRHash"
  /\ Ran(p, "pkRHash")
  /\ Goto(p, "decrypt")
  /\ UNCHANGED <<call, claims, info, plaintext, decryptLog, hashed, validated>>

\* lines 49-51: digest of the verifier's public key against Params.PkRHash
CheckPkRHash(p) ==
  /\ pc[p] = "pkRHash"
  /\ Ran(p, "pkRHash")
  /\ IF Digest(PublicKeyBytes(call[p].privateKey)) # claims[p].Params.PkRHash
       THEN /\ Return(p, Failure(Errorf(MsgPkRHash, "", <<>>, <<>>)))
            /\ UNCHANGED validated
       ELSE /\ validated' = [validated EXCEPT ![p] = @ \cup {"pkRHash"}]
            /\ Goto(p, "decrypt")
  /\ UNCHANGED <<call, claims, info, plaintext, decryptLog, hashed>>

Invocation(ciphertext, pkEm, aad, privateKey) ==
  [ciphertext |-> ciphertext, pkEm |-> pkEm, info |-> aad,
   privateKey |-> privateKey,
   err |-> DecryptHPKE(ciphertext, pkEm, aad, privateKey).err]

\* The envelope's hash handed over as the info in place of the transcript.
Decrypt_HashAsInfo(p) ==
  /\ pc[p] = "decrypt"
  /\ Ran(p, "decrypt")
  /\ LET opened == DecryptHPKE(claims[p].Data, claims[p].Params.PkEM,
                               claims[p].Params.InfoHash, call[p].privateKey)
     IN /\ decryptLog' = [decryptLog EXCEPT ![p] =
             Append(@, Invocation(claims[p].Data, claims[p].Params.PkEM,
                                  claims[p].Params.InfoHash, call[p].privateKey))]
        /\ IF opened.err # ""
             THEN /\ Return(p, Failure(Errorf(MsgDecrypt, opened.err, <<>>, <<>>)))
                  /\ UNCHANGED plaintext
             ELSE /\ plaintext' = [plaintext EXCEPT ![p] = opened.pt]
                  /\ Goto(p, "unwrap")
  /\ UNCHANGED <<call, claims, info, hashed, validated>>

\* The error of DecryptHPKE dropped: the call goes on to decode whatever
\* came back.
Decrypt_ErrIgnored(p) ==
  /\ pc[p] = "decrypt"
  /\ Ran(p, "decrypt")
  /\ LET opened == DecryptHPKE(claims[p].Data, claims[p].Params.PkEM, info[p],
                               call[p].privateKey)
     IN /\ decryptLog' = [decryptLog EXCEPT ![p] =
             Append(@, Invocation(claims[p].Data, claims[p].Params.PkEM, info[p],
                                  call[p].privateKey))]
        /\ plaintext' = [plaintext EXCEPT ![p] = opened.pt]
        /\ Goto(p, "unwrap")
  /\ UNCHANGED <<call, claims, info, hashed, validated>>

\* lines 53-56: plaintext, err := protocol.DecryptHPKE(claims.Data,
\* claims.Params.PkEM, info, privateKey)
Decrypt(p) ==
  /\ pc[p] = "decrypt"
  /\ Ran(p, "decrypt")
  /\ LET opened == DecryptHPKE(claims[p].Data, claims[p].Params.PkEM, info[p],
                               call[p].privateKey)
     IN /\ decryptLog' = [decryptLog EXCEPT ![p] =
             Append(@, Invocation(claims[p].Data, claims[p].Params.PkEM, info[p],
                                  call[p].privateKey))]
        /\ IF opened.err # ""
             THEN /\ Return(p, Failure(Errorf(MsgDecrypt, opened.err, <<>>, <<>>)))
                  /\ UNCHANGED plaintext
             ELSE /\ plaintext' = [plaintext EXCEPT ![p] = opened.pt]
                  /\ Goto(p, "unwrap")
  /\ UNCHANGED <<call, claims, info, hashed, validated>>

\* A decode error of the plaintext swallowed: the zero value is returned as
\* if it had been decoded.
Unwrap_Swallowed(p) ==
  /\ pc[p] = "unwrap"
  /\ Ran(p, "unwrap")
  /\ Return(p, Success(cborUnmarshalTopics(plaintext[p]).identity, info[p]))
  /\ UNCHANGED <<call, claims, info, plaintext, decryptLog, hashed, validated>>

\* lines 58-66: cbor.Unmarshal(plaintext, &topics); return &topics.Identity, info, nil
Unwrap(p) ==
  /\ pc[p] = "unwrap"
  /\ Ran(p, "unwrap")
  /\ LET topics == cborUnmarshalTopics(plaintext[p])
     IN IF topics.err # ""
          THEN Return(p, Failure(Errorf(MsgUnmarshal, topics.err, <<>>, <<>>)))
          ELSE Return(p, Success(topics.identity, info[p]))
  /\ UNCHANGED <<call, claims, info, plaintext, decryptLog, hashed, validated>>

Next ==
  \E p \in Calls :
    \/ Decode(p)
    \/ Transcript(p)
    \/ CheckInfoHash(p)
    \/ CheckPkRHash(p)
    \/ Decrypt(p)
    \/ Unwrap(p)

Spec == Init /\ [][Next]_vars
SpecPair == InitPair /\ [][Next]_vars

\* ----------------------------------------------------- what the claims use
Done(p) == pc[p] = "done"
Invoked(p) == decryptLog[p] # <<>>
InSteps(p, step) == \E i \in 1..Len(steps[p]) : steps[p][i] = step

\* What the call's arguments decide, computed from the arguments alone.
Decoded(p) == cborUnmarshalEnvelope(call[p].data)
Arrived(p) == Decoded(p).env
Rebuilt(p) ==
  generateAppleSessionTranscript(call[p].merchantID, call[p].temaID,
    call[p].nonceByte, Digest(PublicKeyBytes(call[p].privateKey)))
InfoHashOK(p) == Digest(Rebuilt(p)) = Arrived(p).Params.InfoHash
PkRHashOK(p) == Digest(PublicKeyBytes(call[p].privateKey)) = Arrived(p).Params.PkRHash
Admitted(p) == Decoded(p).err = "" /\ InfoHashOK(p) /\ PkRHashOK(p)
Opened(p) ==
  DecryptHPKE(Arrived(p).Data, Arrived(p).Params.PkEM, Rebuilt(p), call[p].privateKey)

\* C1: DecryptHPKE is invoked only in calls whose envelope passes both
\* binding checks (digest of the rebuilt transcript = InfoHash, digest of the
\* verifier's public key = PkRHash); a call whose envelope fails either check
\* returns an error and has invoked DecryptHPKE zero times.
C1_DecryptOnlyAfterBinding ==
  \A p \in Calls :
    /\ Invoked(p) => Admitted(p)
    /\ (Done(p) /\ Decoded(p).err = "" /\ ~(InfoHashOK(p) /\ PkRHashOK(p)))
         => (~ret[p].ok /\ ret[p].err # NoErr /\ decryptLog[p] = <<>>)

C1_Witness ==
  \E p \in Calls :
    /\ Done(p) /\ Decoded(p).err = ""
    /\ InfoHashOK(p) /\ ~PkRHashOK(p)
    /\ ~ret[p].ok /\ decryptLog[p] = <<>>

\* C2: every invocation of DecryptHPKE gets the envelope's Data as the
\* ciphertext, Params.PkEM as the sender's key, the caller's private key, and
\* as info the transcript rebuilt in this call, which is the byte string whose
\* digest was compared with InfoHash and the one returned on success.
C2_DecryptArguments ==
  \A p \in Calls :
    \A i \in 1..Len(decryptLog[p]) :
      LET c == decryptLog[p][i]
      IN /\ c.ciphertext = Arrived(p).Data
         /\ c.pkEm = Arrived(p).Params.PkEM
         /\ c.privateKey = call[p].privateKey
         /\ c.info = Rebuilt(p)
         /\ c.info = hashed[p]
         /\ c.info = info[p]
         /\ (Done(p) /\ ret[p].ok) => ret[p].transcript = c.info

C2_Witness ==
  \E p \in Calls :
    /\ Done(p) /\ ret[p].ok
    /\ Len(decryptLog[p]) = 1
    /\ ret[p].transcript = decryptLog[p][1].info

C4_TamperRejected ==
  \A p \in Calls :
    /\ (Done(p) /\ Admitted(p) /\ ~Arrived(p).Data.intact)
         => (~ret[p].ok /\ ret[p].err.msg = MsgDecrypt)
    /\ \A i \in 1..Len(decryptLog[p]) :
         decryptLog[p][i].err # "" =>
           /\ Len(decryptLog[p]) = 1
           /\ Done(p)
           /\ ret[p] = Failure(Errorf(MsgDecrypt, decryptLog[p][i].err, <<>>, <<>>))
           /\ plaintext[p] = PtNone
           /\ ~InSteps(p, "unwrap")

C4_Witness ==
  \E p \in Calls :
    /\ Done(p) /\ Admitted(p)
    /\ ValidPoint(Arrived(p).Params.PkEM)
    /\ Arrived(p).Data.pk # 0 /\ ~Arrived(p).Data.intact
    /\ ret[p].err.msg = MsgDecrypt
    /\ Len(decryptLog[p]) = 1

\* Reading a transcript back: a string or byte string head at pos.
ReadString(b, pos, major) ==
  IF pos > Len(b) \/ b[pos] \div 32 # major THEN [ok |-> FALSE, v |-> <<>>, next |-> pos]
  ELSE LET ai == b[pos] % 32
           n == IF ai < 24 THEN ai
                ELSE IF ai = 24 THEN b[pos + 1]
                ELSE b[pos + 1] * 256 + b[pos + 2]
           from == IF ai < 24 THEN pos + 1 ELSE IF ai = 24 THEN pos + 2 ELSE pos + 3
       IN [ok |-> ai <= 25 /\ from + n - 1 <= Len(b),
           v |-> SubSeq(b, from, from + n - 1), next |-> from + n]

\* b is the encoding of [null, null, [tag, nonce, merchant, team, digest]].
IsTranscriptOf(b, tag, nonce, merchant, team, digest) ==
  /\ Len(b) > 4
  /\ SubSeq(b, 1, 4) = <<131, 246, 246, 133>>
  /\ LET f1 == ReadString(b, 5, 3)
         f2 == ReadString(b, f1.next, 2)
         f3 == ReadString(b, f2.next, 3)
         f4 == ReadString(b, f3.next, 3)
         f5 == ReadString(b, f4.next, 2)
     IN /\ f1.ok /\ f1.v = tag
        /\ f2.ok /\ f2.v = nonce
        /\ f3.ok /\ f3.v = merchant
        /\ f4.ok /\ f4.v = team
        /\ f5.ok /\ f5.v = digest
        /\ f5.next = Len(b) + 1

\* C5: the transcript a call builds reads back as [null, null,
\* ["AppleIdentityPresentment_1.0", nonce, merchantID, teamID, key digest]],
\* nothing more; its digest is the InfoHash of the envelope a device builds
\* for the same parameters; and the test's fixed inputs give the test's
\* fixed bytes.
C5_TranscriptShape ==
  /\ generateAppleSessionTranscript(FixtureMerchantID, FixtureTeamID,
       FixtureNonce, FixturePublicKeyDigest) = FixtureSessionTranscript
  /\ \A p \in Calls :
       InSteps(p, "transcript") =>
         /\ IsTranscriptOf(info[p], APPLE_HANDOVER_V1, call[p].nonceByte,
              call[p].merchantID, call[p].temaID,
              Digest(PublicKeyBytes(call[p].privateKey)))
         /\ Digest(info[p]) =
              DeviceEnvelope(call[p].privateKey, call[p].merchantID, call[p].temaID,
                call[p].nonceByte, PtEmptyMap).Params.InfoHash
         /\ \A q \in Calls :
              (InSteps(q, "transcript")
                 /\ call[q].merchantID = call[p].merchantID
                 /\ call[q].temaID = call[p].temaID
                 /\ call[q].nonceByte = call[p].nonceByte
                 /\ call[q].privateKey = call[p].privateKey) => info[q] = info[p]

C5_Witness ==
  \E p \in Calls :
    /\ InSteps(p, "transcript")
    /\ call[p].merchantID = MerchantB
    /\ Len(call[p].nonceByte) = NumNonces
    /\ Len(info[p]) > Len(APPLE_HANDOVER_V1)

\* C7: a call that has invoked DecryptHPKE has checked every field of Params
\* (Mode, PkEM, PkRHash, InfoHash) before doing so.
C7_AllParamsValidated ==
  \A p \in Calls :
    Invoked(p) => {"mode", "pkEm", "pkRHash", "infoHash"} \subseteq validated[p]

\* C10: the steps run in the order decode, transcript, infoHash, pkRHash,
\* decrypt, unwrap; a call ends at the first step that fails, with that
\* step's error.  A malformed envelope ends at decode, with no transcript and
\* no decryption; both hashes wrong is reported as the InfoHash mismatch; the
\* two binding errors differ from the decrypt and decode errors.
StepOrder == <<"decode", "transcript", "infoHash", "pkRHash", "decrypt", "unwrap">>
FirstFailing(p) ==
  IF Decoded(p).err # "" THEN 1
  ELSE IF ~InfoHashOK(p) THEN 3
  ELSE IF ~PkRHashOK(p) THEN 4
  ELSE IF Opened(p).err # "" THEN 5
  ELSE IF Opened(p).pt.kind # "map" THEN 6
  ELSE 0
StepError == <<MsgUnmarshal, "failed to create aad", MsgInfoHash, MsgPkRHash,
               MsgDecrypt, MsgUnmarshal>>

C10_StepOrder ==
  \A p \in Calls :
    /\ steps[p] = SubSeq(StepOrder, 1, Len(steps[p]))
    /\ Done(p) =>
         LET f == FirstFailing(p)
         IN /\ Len(steps[p]) = (IF f = 0 THEN Len(StepOrder) ELSE f)
            /\ ret[p].err.msg = (IF f = 0 THEN "" ELSE StepError[f])
            /\ (f = 1) => (info[p] = <<>> /\ decryptLog[p] = <<>>)
            /\ (Decoded(p).err = "" /\ ~InfoHashOK(p) /\ ~PkRHashOK(p))
                 => ret[p].err.msg = MsgInfoHash
            /\ (f \in {3, 4}) => ret[p].err.msg \notin {MsgDecrypt, MsgUnmarshal, ""}

C10_Witness ==
  \E p \in Calls :
    /\ Done(p) /\ Decoded(p).err = ""
    /\ ~InfoHashOK(p) /\ ~PkRHashOK(p)
    /\ Arrived(p).Params.InfoHash # <<>>
    /\ ret[p].err.msg = MsgInfoHash
    /\ steps[p] = SubSeq(StepOrder, 1, 3)

\* Two calls whose arguments differ in nothing but the envelope's Data.
SameButData(p, q) ==
  /\ call[p].data.kind = "map" /\ call[q].data.kind = "map"
  /\ call[p].data.env.Algorithm = call[q].data.env.Algorithm
  /\ call[p].data.env.Params = call[q].data.env.Params
  /\ call[p].merchantID = call[q].merchantID
  /\ call[p].temaID = call[q].temaID
  /\ call[p].privateKey = call[q].privateKey
  /\ call[p].nonceByte = call[q].nonceByte

\* C6: two finished calls whose envelopes carry a PkRHash made from another
\* public key and differ only in Data both fail, with the same error, and
\* neither has invoked DecryptHPKE.
C6_WrongKeyIgnoresCiphertext ==
  \A p, q \in Calls :
    (Done(p) /\ Done(q) /\ SameButData(p, q) /\ ~PkRHashOK(p) /\ ~PkRHashOK(q)) =>
      /\ ~ret[p].ok /\ ~ret[q].ok
      /\ ret[p] = ret[q]
      /\ decryptLog[p] = <<>> /\ decryptLog[q] = <<>>

C6_Witness ==
  \E p, q \in Calls :
    /\ Done(p) /\ Done(q) /\ SameButData(p, q)
    /\ call[p].data.env.Data # call[q].data.env.Data
    /\ InfoHashOK(p) /\ ~PkRHashOK(p) /\ ~PkRHashOK(q)
    /\ ret[p] = ret[q] /\ ret[p].err.msg = MsgPkRHash

\* C8: of two finished calls that both pass the binding checks, one failing
\* in DecryptHPKE on a malformed PkEM and the other on a flipped ciphertext,
\* the errors returned are the same.
C8_NoCauseLeak ==
  \A p, q \in Calls :
    ( /\ Done(p) /\ Done(q) /\ Admitted(p) /\ Admitted(q)
      /\ ~ValidPoint(Arrived(p).Params.PkEM)
      /\ ValidPoint(Arrived(q).Params.PkEM) /\ ~Arrived(q).Data.intact )
    => ret[p].err = ret[q].err

\* C9: whatever the interleaving of the calls' steps, a finished call has
\* returned what ParseDeviceResponse returns for its arguments run alone, and
\* two finished calls with the same arguments have returned the same.
C9_CallsIndependent ==
  /\ \A p \in Calls :
       Done(p) =>
         ret[p] = ParseDeviceResponse(call[p].data, call[p].merchantID,
                    call[p].temaID, call[p].privateKey, call[p].nonceByte)
  /\ \A p, q \in Calls :
       (Done(p) /\ Done(q) /\ call[p] = call[q]) => ret[p] = ret[q]

C9_Witness ==
  \E p, q \in Calls :
    /\ Done(p) /\ Done(q)
    /\ call[p].privateKey # call[q].privateKey
    /\ call[p].nonceByte # call[q].nonceByte
    /\ ret[p].ok /\ ret[q].ok
    /\ ret[p].transcript # ret[q].transcript

====
